---- MODULE Spec2Model ----
(***************************************************************************)
(* Model of the entity-checker analysis core:                              *)
(*   backend/analyzer/schemaorg_loader.py   (class hierarchy graph)        *)
(*   backend/analyzer/type_resolver.py      (resolve_types, is_subclass)   *)
(*   backend/analyzer/entity_merger.py      (merge_entities)               *)
(*   backend/analyzer/confidence.py         (enrich_confidence)            *)
(*   backend/analyzer/organization.py       (resolve_organization)         *)
(*   backend/analyzer/suggestion_engine.py  (SuggestionEngine.generate)    *)
(*   backend/analyzer/orchestor.py          (analyze_html pipeline steps)  *)
(*   backend/api/analyze.py                 (threadpool workers)           *)
(*                                                                         *)
(* Confidence is held in thousandths (0.9 is 900).  A source string is     *)
(* held as the sequence of its comma-separated tags ("jsonld,rdfa" is      *)
(* <<"jsonld","rdfa">>).  A condition key of a rule is held as the         *)
(* sequence of its dot-separated segments.                                 *)
(***************************************************************************)
EXTENDS Integers, Sequences, FiniteSets, TLC

VARIABLES
    entities,      \* the run's entity list (orchestor.analyze_html `entities`)
    mergeIn,       \* the list handed to the last merge_entities call
    scored,        \* the enrich_confidence call of the last step, if it made one
    lastOp,        \* the last pipeline step taken
    steps,         \* number of merge / score operations applied so far
    rules,         \* SuggestionEngine.rules (loaded rule list)
    signals,       \* the signals bag handed to generate
    hashSeed,      \* the process's string-hash seed (fixes set iteration order)
    grouped,       \* the mapping returned by the last generate call
    firstGrouped,  \* the mapping returned by the first generate call on this input
    runs,          \* number of generate calls made on this input
    organization,  \* what resolve_organization returned (analyze_html `organization`)
    loader,        \* schemaorg_loader module state and the ontology source
    threads,       \* the threadpool workers running analyze_html (under
                   \* SpecEngine: their generate invocations and frames)
    genArgs        \* the arguments of a direct SuggestionEngine.generate call

vars == <<entities, mergeIn, scored, lastOp, steps, rules, signals, hashSeed,
          grouped, firstGrouped, runs, organization, loader, threads, genArgs>>

(***************************************************************************)
(* Bounds                                                                  *)
(***************************************************************************)
MaxEntities == 2
MaxSteps == 2
MaxRuns == 2
NumSeeds == 2
NumThreads == 2
MaxCalls == 2

(***************************************************************************)
(* Generic helpers                                                         *)
(***************************************************************************)
Min(a, b) == IF a <= b THEN a ELSE b

SeqsUpTo(S, n) == UNION {[1..k -> S] : k \in 0..n}

Range(s) == {s[i] : i \in 1..Len(s)}

(***************************************************************************)
(* Property values.  Absent stands for a key that the properties mapping   *)
(* does not hold; NonString stands for a value that is not a string (a     *)
(* list or a nested object of the markup); every other value is a string.  *)
(***************************************************************************)
Absent == "<absent>"

NonString == "<list>"

\* str.lower() on the strings of the model
Lower(s) ==
    CASE s = "Acme" -> "acme"
      [] s = "ACME" -> "acme"
      [] s = "http://A" -> "http://a"
      [] OTHER -> s

\* props.get(key, "")
GetOrEmpty(v) == IF v = Absent THEN "" ELSE v

\* truthiness of props.get(key): a missing key and the empty string are falsy
Truthy(v) == v # Absent /\ v # ""

(***************************************************************************)
(* schemaorg_loader / type_resolver                                        *)
(***************************************************************************)
\* The parent -> direct children mapping built from the vocabulary document
\* (a fragment of the schema.org class hierarchy).
SCHEMA_GRAPH ==
    [Thing |-> {"Action", "CreativeWork", "Intangible", "Organization",
                "Place", "Product"},
     Action |-> {"SearchAction"},
     CreativeWork |-> {"Article", "Clip", "HowTo", "MediaObject", "Review",
                       "WebPage", "WebSite"},
     Article |-> {"NewsArticle", "SocialMediaPosting"},
     SocialMediaPosting |-> {"BlogPosting"},
     WebPage |-> {"FAQPage"},
     MediaObject |-> {"ImageObject", "VideoObject"},
     Organization |-> {"LocalBusiness"},
     Place |-> {"LocalBusiness"},
     Intangible |-> {"ItemList", "Offer", "Rating", "StructuredValue"},
     Offer |-> {"AggregateOffer"},
     Rating |-> {"AggregateRating"},
     StructuredValue |-> {"ContactPoint", "GeoCoordinates",
                          "OpeningHoursSpecification", "PriceSpecification"},
     ContactPoint |-> {"PostalAddress"},
     ItemList |-> {"BreadcrumbList", "HowToStep"}]

\* resolve_types that also takes the children of the children
resolve_types_two_levels(schema_type) ==
    LET children(t) == IF t \in DOMAIN SCHEMA_GRAPH THEN SCHEMA_GRAPH[t] ELSE {}
    IN  {schema_type} \cup children(schema_type)
          \cup UNION {children(c) : c \in children(schema_type)}

resolve_types(schema_type) ==
    {schema_type} \cup
        (IF schema_type \in DOMAIN SCHEMA_GRAPH
            THEN SCHEMA_GRAPH[schema_type] ELSE {})

is_subclass(schema_type, parent) == parent \in resolve_types(schema_type)

(***************************************************************************)
(* Entity records (models/entity.py NormalizedEntity; `raw` is never read) *)
(***************************************************************************)
SOURCES == {"jsonld", "microdata", "rdfa"}

\* base_confidence handed to _normalize_entities for each extractor
BaseConfidence(src) ==
    CASE src = "jsonld" -> 900
      [] src = "microdata" -> 700
      [] src = "rdfa" -> 600

NormalizedEntity(type, props, src) ==
    [type |-> type, properties |-> props, source |-> <<src>>,
     confidence |-> BaseConfidence(src), resolved_types |-> {}]

Props(name, url, sameAs, logo) ==
    [name |-> name, url |-> url, sameAs |-> sameAs, logo |-> logo]

\* The (type, properties) shapes the extractors hand over in the model
EntityShapes ==
    { <<"Organization", Props(Absent, Absent, Absent, Absent)>>,
      <<"Organization", Props("", Absent, Absent, Absent)>>,
      <<"Organization", Props("Acme", Absent, Absent, Absent)>>,
      <<"Organization", Props("acme", Absent, Absent, "logo.png")>>,
      <<"Organization", Props("ACME", "http://a", "http://s", "logo.png")>>,
      <<"Organization", Props("acme", "http://A", Absent, Absent)>>,
      <<"Product", Props("Acme", Absent, Absent, Absent)>> }

\* A record whose name is not a string (JSON-LD "name": ["Acme", "ACME"])
MalformedShapes ==
    { <<"Organization", Props(NonString, Absent, Absent, Absent)>> }

\* What the extractors hand over: every shape from every extractor, and the
\* malformed record from the JSON-LD extractor
EntityInputs ==
    (EntityShapes \X SOURCES) \cup (MalformedShapes \X {"jsonld"})

\* analyze_html TYPE RESOLUTION loop
ResolveAll(ents) ==
    [i \in 1..Len(ents) |->
        [ents[i] EXCEPT !.resolved_types = resolve_types(ents[i].type)]]

(***************************************************************************)
(* entity_merger                                                           *)
(***************************************************************************)
\* _identity_key that forgets to lowercase
identity_key_nolower(entity) ==
    <<entity.type, GetOrEmpty(entity.properties.name),
      GetOrEmpty(entity.properties.url)>>

identity_key(entity) ==
    <<entity.type,
      Lower(GetOrEmpty(entity.properties.name)),
      Lower(GetOrEmpty(entity.properties.url))>>

\* Alphabetical rank of the source tags (Python string order)
TagRank(tag) ==
    CASE tag = "jsonld" -> 1
      [] tag = "microdata" -> 2
      [] tag = "rdfa" -> 3

\* a < b for two source strings (the comma sorts before every letter, so the
\* order of the strings is the lexicographic order of their tag sequences)
RECURSIVE SourceLess(_, _)
SourceLess(a, b) ==
    IF a = <<>> THEN b # <<>>
    ELSE IF b = <<>> THEN FALSE
    ELSE IF TagRank(Head(a)) # TagRank(Head(b))
         THEN TagRank(Head(a)) < TagRank(Head(b))
    ELSE SourceLess(Tail(a), Tail(b))

\* ",".join(sorted(S)) for a set S of source strings
RECURSIVE JoinSorted(_)
JoinSorted(S) ==
    IF S = {} THEN <<>>
    ELSE LET least == CHOOSE s \in S : \A t \in S \ {s} : SourceLess(s, t)
         IN  least \o JoinSorted(S \ {least})

\* the keys of `buckets` in insertion order
RECURSIVE BucketKeys(_)
BucketKeys(ents) ==
    IF ents = <<>> THEN <<>>
    ELSE LET front == BucketKeys(SubSeq(ents, 1, Len(ents) - 1))
             k == identity_key(ents[Len(ents)])
         IN  IF k \in Range(front) THEN front ELSE Append(front, k)

\* buckets[key]: the members in input order
Bucket(ents, key) == SelectSeq(ents, LAMBDA e : identity_key(e) = key)

\* the last member of maximal confidence
PrimaryLast(group) ==
    LET best == CHOOSE i \in 1..Len(group) :
                  /\ \A j \in 1..Len(group) :
                        group[j].confidence <= group[i].confidence
                  /\ \A j \in (i + 1)..Len(group) :
                        group[j].confidence < group[i].confidence
    IN  group[best]

\* max(group, key=confidence): the first member of maximal confidence
Primary(group) ==
    LET best == CHOOSE i \in 1..Len(group) :
                  /\ \A j \in 1..Len(group) :
                        group[j].confidence <= group[i].confidence
                  /\ \A j \in 1..(i - 1) :
                        group[j].confidence < group[i].confidence
    IN  group[best]

\* the boost without the clamp
BoostedConfidenceNoClamp(group, c) ==
    IF Len(group) > 1 THEN c + 100 ELSE c

\* the boost given to every group, whatever its size
BoostedConfidenceAlways(group, c) == Min(c + 100, 1000)

\* the boost taken from the first member of the group instead of the primary
BoostedConfidenceOfFirst(group, c) ==
    IF Len(group) > 1 THEN Min(group[1].confidence + 100, 1000) ELSE c

BoostedConfidence(group, c) ==
    IF Len(group) > 1 THEN Min(c + 100, 1000) ELSE c

\* the source of the primary left as it was
MergedSourceKeepPrimary(group) == Primary(group).source

MergedSource(group) == JoinSorted({group[i].source : i \in 1..Len(group)})

\* body of the loop over the buckets
MergeGroup(group) ==
    LET primary == Primary(group)
    IN  [primary EXCEPT !.source = MergedSource(group),
                        !.confidence = BoostedConfidence(group, primary.confidence)]

merge_entities(ents) ==
    LET keys == BucketKeys(ents)
    IN  [i \in 1..Len(keys) |-> MergeGroup(Bucket(ents, keys[i]))]

\* _identity_key raises AttributeError: .lower() is called on what
\* props.get returned, and only a string has it
identity_key_raises(entity) ==
    \/ GetOrEmpty(entity.properties.name) = NonString
    \/ GetOrEmpty(entity.properties.url) = NonString

\* merge_entities raises: the first loop computes the key of every record
merge_entities_raises(ents) ==
    \E i \in 1..Len(ents) : identity_key_raises(ents[i])

(***************************************************************************)
(* confidence                                                              *)
(***************************************************************************)
\* round(x, 2) on thousandths (ties to even)
Round2(x) ==
    LET r == x % 10
        base == x - r
    IN  IF r < 5 THEN base
        ELSE IF r > 5 THEN base + 10
        ELSE IF (base \div 10) % 2 = 0 THEN base ELSE base + 10

\* the logo counted like the other three properties
RawScoreLogoAsOthers(entity, source_count) ==
    entity.confidence
      + (IF Truthy(entity.properties.name) THEN 50 ELSE 0)
      + (IF Truthy(entity.properties.url) THEN 50 ELSE 0)
      + (IF Truthy(entity.properties.sameAs) THEN 50 ELSE 0)
      + (IF Truthy(entity.properties.logo) THEN 50 ELSE 0)
      + (IF source_count > 1 THEN 100 ELSE 0)

RawScore(entity, source_count) ==
    entity.confidence
      + (IF Truthy(entity.properties.name) THEN 50 ELSE 0)
      + (IF Truthy(entity.properties.url) THEN 50 ELSE 0)
      + (IF Truthy(entity.properties.sameAs) THEN 50 ELSE 0)
      + (IF Truthy(entity.properties.logo) THEN 30 ELSE 0)
      + (IF source_count > 1 THEN 100 ELSE 0)

\* enrich_confidence without min(score, 1.0)
enrich_confidence_noclamp(entity, source_count) ==
    [entity EXCEPT !.confidence = Round2(RawScore(entity, source_count))]

enrich_confidence(entity, source_count) ==
    [entity EXCEPT
        !.confidence = Round2(Min(RawScore(entity, source_count), 1000))]

(***************************************************************************)
(* organization                                                            *)
(***************************************************************************)
\* Python None, the empty dict, and the dict resolve_organization builds
OrgNone == [kind |-> "none"]

EmptyDict == [kind |-> "dict"]

Projection(best) ==
    [kind |-> "dict", type |-> best.type, properties |-> best.properties,
     confidence |-> best.confidence, source |-> best.source]

\* score_org: a key counts when the mapping holds it, whatever its value
score_org(entity) ==
    (IF entity.properties.name # Absent THEN 2000 ELSE 0)
      + (IF entity.properties.url # Absent THEN 2000 ELSE 0)
      + (IF entity.properties.logo # Absent THEN 1000 ELSE 0)
      + (IF entity.properties.sameAs # Absent THEN 1000 ELSE 0)
      + entity.confidence

\* [e for e in entities if is_subclass(e.type, "Organization")]
OrganizationCandidates(ents) ==
    SelectSeq(ents, LAMBDA e : is_subclass(e.type, "Organization"))

\* the candidate of the best score_org
BestCandidateByScore(candidates) ==
    LET best == CHOOSE i \in 1..Len(candidates) :
                  /\ \A j \in 1..Len(candidates) :
                        score_org(candidates[j]) <= score_org(candidates[i])
                  /\ \A j \in 1..(i - 1) :
                        score_org(candidates[j]) < score_org(candidates[i])
    IN  candidates[best]

\* max(candidates, key=lambda e: e.confidence)
BestCandidate(candidates) ==
    LET best == CHOOSE i \in 1..Len(candidates) :
                  /\ \A j \in 1..Len(candidates) :
                        candidates[j].confidence <= candidates[i].confidence
                  /\ \A j \in 1..(i - 1) :
                        candidates[j].confidence < candidates[i].confidence
    IN  candidates[best]

\* page_url is accepted and never read
resolve_organization(ents, page_url) ==
    LET candidates == OrganizationCandidates(ents)
    IN  IF candidates = <<>> THEN OrgNone
        ELSE Projection(BestCandidate(candidates))

\* The page urls analyze_html is called with in the model
PageUrls == {Absent, "http://a"}

(***************************************************************************)
(* Values of the parts of the state a specification does not follow        *)
(***************************************************************************)
\* no enrich_confidence call made yet
NotScored == [index |-> 0]

\* no resolve_organization call made yet
NotResolved == [returned |-> [kind |-> "unset"], kept |-> [kind |-> "unset"]]

\* the ontology loaded once by the process, before the run looked at
LoadedLoader ==
    [graph |-> 1, readable |-> TRUE, objects |-> <<SCHEMA_GRAPH>>, first |-> 1]

NoThreads == <<>>

\* no direct generate call
NoCall == [entities_given |-> TRUE, signals_given |-> TRUE, outcome |-> "none"]

(***************************************************************************)
(* Merge / score pipeline                                                  *)
(***************************************************************************)
NoGrouped == <<>>

\* State after NORMALIZATION and TYPE RESOLUTION of analyze_html
InitMerge ==
    /\ entities \in
         {ResolveAll([i \in 1..Len(l) |->
                        NormalizedEntity(l[i][1][1], l[i][1][2], l[i][2])]) :
            l \in SeqsUpTo(EntityInputs, MaxEntities)}
    /\ mergeIn = <<>>
    /\ scored = NotScored
    /\ lastOp = "normalize"
    /\ steps = 0
    /\ rules = <<>>
    /\ signals = [kind |-> "dict", items |-> <<>>]
    /\ hashSeed = 1
    /\ grouped = NoGrouped
    /\ firstGrouped = NoGrouped
    /\ runs = 0
    /\ organization = NotResolved
    /\ loader = LoadedLoader
    /\ threads = NoThreads
    /\ genArgs = NoCall

\* try: entities = merge_entities(entities) or []
\* except Exception: entities = []
Merge ==
    /\ steps < MaxSteps
    /\ mergeIn' = entities
    /\ IF merge_entities_raises(entities)
          THEN /\ entities' = <<>>
               /\ lastOp' = "merge_failed"
          ELSE /\ entities' = merge_entities(entities)
               /\ lastOp' = "merge"
    /\ scored' = NotScored
    /\ steps' = steps + 1
    /\ UNCHANGED <<rules, signals, hashSeed, grouped, firstGrouped, runs,
                   organization, loader, threads, genArgs>>

\* enrich_confidence(entities[i], source_count)
Score ==
    /\ steps < MaxSteps
    /\ \E i \in 1..Len(entities), source_count \in 1..2 :
          /\ entities' = [entities EXCEPT
                            ![i] = enrich_confidence(entities[i], source_count)]
          /\ scored' = [index |-> i, source_count |-> source_count,
                        before |-> entities[i]]
    /\ lastOp' = "score"
    /\ steps' = steps + 1
    /\ UNCHANGED <<mergeIn, rules, signals, hashSeed, grouped, firstGrouped,
                   runs, organization, loader, threads, genArgs>>

NextMerge == Merge \/ Score

SpecMerge == InitMerge /\ [][NextMerge]_vars

(***************************************************************************)
(* The run of analyze_html from MERGE to ORGANIZATION                      *)
(***************************************************************************)
\* MERGE and CONFIDENCE of analyze_html: the list is merged (emptied when
\* merge_entities raises) and every record left is scored once
MergeAndScore ==
    /\ lastOp = "normalize"
    /\ mergeIn' = entities
    /\ entities' =
          IF merge_entities_raises(entities) THEN <<>>
          ELSE LET merged == merge_entities(entities)
               IN  [i \in 1..Len(merged) |-> enrich_confidence(merged[i], 1)]
    /\ lastOp' = "score"
    /\ steps' = steps + 1
    /\ UNCHANGED <<scored, rules, signals, hashSeed, grouped, firstGrouped,
                   runs, organization, loader, threads, genArgs>>

\* organization = resolve_organization(entities=entities, page_url=url) or {}
ResolveOrganization ==
    /\ lastOp # "organization"
    /\ \E page_url \in PageUrls :
          LET returned == resolve_organization(entities, page_url)
          IN  organization' =
                [returned |-> returned,
                 kept |-> IF returned = OrgNone THEN EmptyDict ELSE returned]
    /\ lastOp' = "organization"
    /\ UNCHANGED <<scored, entities, mergeIn, steps, rules, signals, hashSeed,
                   grouped, firstGrouped, runs, loader, threads, genArgs>>

NextOrganization == MergeAndScore \/ ResolveOrganization

SpecOrganization == InitMerge /\ [][NextOrganization]_vars

(***************************************************************************)
(* suggestion_engine: values, tables and rules                             *)
(***************************************************************************)
\* Python values met in the signals bag and in a rule's expected values:
\* a mapping, a scalar (held by its text) or None.
PyDict(items) == [kind |-> "dict", items |-> items, val |-> ""]
PyScalar(v) == [kind |-> "scalar", items |-> <<>>, val |-> v]
PyNone == [kind |-> "none", items |-> <<>>, val |-> ""]

\* a == b for two such values
PyEq(a, b) ==
    /\ a.kind = b.kind
    /\ a.kind = "scalar" => a.val = b.val
    /\ a.kind = "dict" => a.items = b.items

\* Every type name of the graph and of the two tables
AllTypes ==
    <<"Thing", "Action", "SearchAction", "CreativeWork", "Article",
      "NewsArticle", "SocialMediaPosting", "BlogPosting", "Clip", "HowTo",
      "MediaObject", "ImageObject", "VideoObject", "Review", "WebPage",
      "FAQPage", "WebSite", "Organization", "LocalBusiness", "Place",
      "Product", "Intangible", "ItemList", "BreadcrumbList", "HowToStep",
      "Offer", "AggregateOffer", "Rating", "AggregateRating",
      "StructuredValue", "ContactPoint", "PostalAddress", "GeoCoordinates",
      "OpeningHoursSpecification", "PriceSpecification", "Question",
      "Answer", "SiteNavigationElement", "Author", "Publisher",
      "HowToSupply", "HowToTool">>

\* position of each name in AllTypes
TypeIndex ==
    [t \in Range(AllTypes) |-> CHOOSE i \in 1..Len(AllTypes) : AllTypes[i] = t]

\* target schema -> its any_of list
SCHEMA_SATISFACTION_RULES ==
    [FAQPage |-> <<{"Question", "Answer"}>>,
     Question |-> <<{"FAQPage"}>>,
     Answer |-> <<{"FAQPage"}>>,
     Article |-> <<{"BlogPosting"}, {"NewsArticle"}>>,
     BlogPosting |-> <<{"Article"}>>,
     NewsArticle |-> <<{"Article"}>>,
     Product |-> <<{"Offer"}, {"AggregateOffer"}>>,
     Offer |-> <<{"Product"}>>,
     AggregateOffer |-> <<{"Product"}>>,
     Review |-> <<{"AggregateRating"}>>,
     Rating |-> <<{"AggregateRating"}>>,
     Organization |-> <<{"LocalBusiness"}>>,
     LocalBusiness |-> <<{"Organization"}>>,
     PostalAddress |-> <<{"LocalBusiness"}, {"Organization"}>>,
     GeoCoordinates |-> <<{"Place"}, {"LocalBusiness"}>>,
     VideoObject |-> <<{"Clip"}>>,
     ImageObject |-> <<{"MediaObject"}>>,
     BreadcrumbList |-> <<{"WebPage"}, {"SiteNavigationElement"}>>,
     WebPage |-> <<{"Article"}, {"Product"}, {"FAQPage"}>>,
     WebSite |-> <<{"SearchAction"}>>]

\* RELATED_SCHEMAS: its keys in declaration order, and the related sets
RELATED_KEYS ==
    <<"Article", "BlogPosting", "NewsArticle", "HowTo", "FAQPage",
      "VideoObject", "ImageObject", "Organization", "LocalBusiness",
      "Product", "Offer", "AggregateOffer", "Review">>

RELATED_SCHEMAS ==
    [Article |-> {"Author", "Publisher"},
     BlogPosting |-> {"Author", "Publisher"},
     NewsArticle |-> {"Author", "Publisher"},
     HowTo |-> {"HowToStep", "HowToSupply", "HowToTool"},
     FAQPage |-> {"Question", "Answer"},
     VideoObject |-> {"Clip"},
     ImageObject |-> {"MediaObject"},
     Organization |-> {"WebSite", "ContactPoint"},
     LocalBusiness |-> {"OpeningHoursSpecification", "PostalAddress",
                        "GeoCoordinates"},
     Product |-> {"Offer", "AggregateOffer", "Review"},
     Offer |-> {"PriceSpecification"},
     AggregateOffer |-> {"Offer"},
     Review |-> {"Rating"}]

\* Iteration order of a set of strings.  The order follows the strings'
\* hashes, which the process's hash seed fixes: seed k visits the names by
\* increasing (index * k) modulo the prime Len(AllTypes) + 1.
HashRank(t, seed) == (TypeIndex[t] * seed) % (Len(AllTypes) + 1)

RECURSIVE SetOrder(_, _)
SetOrder(S, seed) ==
    IF S = {} THEN <<>>
    ELSE LET first == CHOOSE t \in S :
                        \A u \in S : HashRank(t, seed) <= HashRank(u, seed)
         IN  <<first>> \o SetOrder(S \ {first}, seed)

\* A rule of the rule file; Absent marks a key the rule does not hold
Cond(key, expected) == [key |-> key, expected |-> expected]

Rule(when, suggest, confidence, category, reason) ==
    [when |-> when, suggest |-> suggest, confidence |-> confidence,
     category |-> category, reason |-> reason]

\* The rule file of the model, in declaration order
RuleFile ==
    << Rule(<<>>, "Organization", "low", "General", "Every site has a publisher"),
       Rule(<<Cond(<<"missing_schema">>, PyScalar("Organization"))>>,
            "Organization", "high", "Identity", "Add Organization markup"),
       Rule(<<Cond(<<"signal", "ecommerce", "review_detected">>, PyScalar("True"))>>,
            "Review", "medium", "Ecommerce", "Reviews found on page"),
       Rule(<<>>, "FAQPage", Absent, Absent, Absent),
       Rule(<<Cond(<<"missing_schema">>, PyScalar("Offer")),
              Cond(<<"has_schema">>, PyScalar("Product"))>>,
            "Offer", "high", "Ecommerce", "Products need offers") >>

\* The rules of RuleFile at the positions in I, in declaration order
RulesAt(I) ==
    LET pick[k \in 0..Len(RuleFile)] ==
            IF k = 0 THEN <<>>
            ELSE IF k \in I THEN Append(pick[k - 1], RuleFile[k])
            ELSE pick[k - 1]
    IN  pick[Len(RuleFile)]

\* The rule lists an engine is loaded with in the model: RuleFile with any
\* of its rules left out
RuleLists == {RulesAt(I) : I \in SUBSET (1..Len(RuleFile))}

\* The signals bags of the model: the empty bag analyze_html falls back to,
\* and a bag of the signal analyzer with ecommerce.review_detected set
SignalBags ==
    { PyDict(<<>>),
      PyDict([ecommerce |-> PyDict([review_detected |-> PyScalar("True")])]) }

(***************************************************************************)
(* suggestion_engine: SuggestionEngine                                     *)
(***************************************************************************)
\* {t for e in entities for t in e.resolved_types}
PresentTypes(ents) == UNION {ents[i].resolved_types : i \in 1..Len(ents)}

\* coverage testing membership among the present types only, without the
\* second hop of is_subclass
CoveredExact(schema, present_types) == schema \in present_types

\* any(is_subclass(t, schema) for t in present_types)
Covered(schema, present_types) ==
    \E t \in present_types : is_subclass(t, schema)

\* one alternative of any_of counted as covered once any member is matched
RequiredSetCoveredAny(required_set, present_types) ==
    \E required \in required_set : Covered(required, present_types)

RequiredSetCovered(required_set, present_types) ==
    \A required \in required_set : Covered(required, present_types)

RECURSIVE AnyOfCovered(_, _)
AnyOfCovered(any_of_sets, present_types) ==
    IF any_of_sets = <<>> THEN FALSE
    ELSE IF RequiredSetCovered(Head(any_of_sets), present_types) THEN TRUE
    ELSE AnyOfCovered(Tail(any_of_sets), present_types)

is_schema_satisfied(target_schema, present_types) ==
    IF target_schema \notin DOMAIN SCHEMA_SATISFACTION_RULES THEN FALSE
    ELSE AnyOfCovered(SCHEMA_SATISFACTION_RULES[target_schema], present_types)

\* path.replace("signal.", "").split("."): every segment "signal" that a dot
\* follows is removed
SignalParts(key) ==
    LET n == Len(key)
        keep(i) == i = n \/ key[i] # "signal"
    IN  SelectSeq([i \in 1..n |-> <<i, key[i]>>], LAMBDA p : keep(p[1]))

RECURSIVE WalkSignal(_, _)
WalkSignal(value, parts) ==
    IF parts = <<>> THEN value
    ELSE IF value.kind # "dict" THEN PyNone
    ELSE LET part == Head(parts)[2]
         IN  WalkSignal(IF part \in DOMAIN value.items
                           THEN value.items[part] ELSE PyNone,
                        Tail(parts))

get_signal_value(sigs, key) == WalkSignal(sigs, SignalParts(key))

\* the loop of _rule_matches passing over a key it does not know
RECURSIVE ConditionsHoldSkipUnknown(_, _, _)
ConditionsHoldSkipUnknown(conditions, present_types, sigs) ==
    IF conditions = <<>> THEN TRUE
    ELSE LET key == Head(conditions).key
             expected == Head(conditions).expected
             rest == ConditionsHoldSkipUnknown(Tail(conditions), present_types,
                                               sigs)
         IN  IF key = <<"missing_schema">>
                THEN IF Covered(expected.val, present_types) THEN FALSE
                     ELSE rest
             ELSE IF Len(key) >= 2 /\ key[1] = "signal"
                THEN IF ~PyEq(get_signal_value(sigs, key), expected) THEN FALSE
                     ELSE rest
             ELSE rest

RECURSIVE ConditionsHold(_, _, _)
ConditionsHold(conditions, present_types, sigs) ==
    IF conditions = <<>> THEN TRUE
    ELSE LET key == Head(conditions).key
             expected == Head(conditions).expected
         IN  IF key = <<"missing_schema">>
                THEN IF Covered(expected.val, present_types) THEN FALSE
                     ELSE ConditionsHold(Tail(conditions), present_types, sigs)
             ELSE IF Len(key) >= 2 /\ key[1] = "signal"
                THEN IF ~PyEq(get_signal_value(sigs, key), expected) THEN FALSE
                     ELSE ConditionsHold(Tail(conditions), present_types, sigs)
             ELSE FALSE

rule_matches(rule, present_types, sigs) ==
    ConditionsHold(rule.when, present_types, sigs)

Default(v, d) == IF v = Absent THEN d ELSE v

Suggestion(schema, confidence, category, reason) ==
    [schema |-> schema, confidence |-> confidence, category |-> category,
     reason |-> reason, schema_url |-> "https://schema.org/" \o schema]

\* the rule layer's `continue` tests without the satisfaction test
RuleDroppedNoSatisfaction(schema, present_types, suggested_schemas) ==
    \/ Covered(schema, present_types)
    \/ schema = "Review" /\ ~Covered("Product", present_types)
    \/ schema \in suggested_schemas

\* the rule layer's `continue` tests without the Review domain guard
RuleDroppedNoReviewGuard(schema, present_types, suggested_schemas) ==
    \/ Covered(schema, present_types)
    \/ is_schema_satisfied(schema, present_types)
    \/ schema \in suggested_schemas

\* the rule layer's `continue` tests without the already-suggested test
RuleDroppedNoDedupe(schema, present_types, suggested_schemas) ==
    \/ Covered(schema, present_types)
    \/ is_schema_satisfied(schema, present_types)
    \/ schema = "Review" /\ ~Covered("Product", present_types)

\* the `continue` tests of the rule layer after a rule matched
RuleDropped(schema, present_types, suggested_schemas) ==
    \/ Covered(schema, present_types)
    \/ is_schema_satisfied(schema, present_types)
    \/ schema = "Review" /\ ~Covered("Product", present_types)
    \/ schema \in suggested_schemas

\* Layer 1; acc holds `suggestions` and `suggested_schemas`
RECURSIVE RuleLayer(_, _, _, _)
RuleLayer(rs, present_types, sigs, acc) ==
    IF rs = <<>> THEN acc
    ELSE LET rule == Head(rs)
             schema == rule.suggest
             emit == /\ rule_matches(rule, present_types, sigs)
                     /\ ~RuleDropped(schema, present_types, acc.suggested_schemas)
         IN  RuleLayer(Tail(rs), present_types, sigs,
                IF emit
                   THEN [suggestions |->
                            Append(acc.suggestions,
                                   Suggestion(schema,
                                              Default(rule.confidence, "medium"),
                                              Default(rule.category, "General"),
                                              Default(rule.reason, ""))),
                         suggested_schemas |-> acc.suggested_schemas \cup {schema}]
                   ELSE acc)

\* the <<parent, related>> pairs the three nested loops visit, in order
RECURSIVE RelatedOfKeys(_, _, _)
RelatedOfKeys(keys, present, seed) ==
    IF keys = <<>> THEN <<>>
    ELSE LET parent == Head(keys)
             here == IF is_subclass(present, parent)
                        THEN LET rel == SetOrder(RELATED_SCHEMAS[parent], seed)
                             IN  [i \in 1..Len(rel) |-> <<parent, rel[i]>>]
                        ELSE <<>>
         IN  here \o RelatedOfKeys(Tail(keys), present, seed)

RECURSIVE ExpansionVisits(_, _)
ExpansionVisits(presentOrder, seed) ==
    IF presentOrder = <<>> THEN <<>>
    ELSE RelatedOfKeys(RELATED_KEYS, Head(presentOrder), seed)
            \o ExpansionVisits(Tail(presentOrder), seed)

\* the expansion's `continue` tests without the satisfaction test
ExpansionSkippedNoSatisfaction(related, present_types, suggested_schemas) ==
    \/ Covered(related, present_types)
    \/ related \in suggested_schemas

\* the expansion's `continue` tests without the already-emitted test
ExpansionSkippedNoDedupe(related, present_types, suggested_schemas) ==
    \/ Covered(related, present_types)
    \/ is_schema_satisfied(related, present_types)

\* the `continue` tests of the innermost expansion loop
ExpansionSkipped(related, present_types, suggested_schemas) ==
    \/ Covered(related, present_types)
    \/ is_schema_satisfied(related, present_types)
    \/ related \in suggested_schemas

\* the expansion loops left at the first suggestion they append
RECURSIVE ExpandVisitsFirstOnly(_, _, _)
ExpandVisitsFirstOnly(visits, present_types, acc) ==
    IF visits = <<>> THEN acc
    ELSE LET parent == Head(visits)[1]
             related == Head(visits)[2]
         IN  IF ExpansionSkipped(related, present_types, acc.suggested_schemas)
                THEN ExpandVisitsFirstOnly(Tail(visits), present_types, acc)
                ELSE [suggestions |->
                         Append(acc.suggestions,
                                Suggestion(related, "low", "Related",
                                           "Commonly used with " \o parent)),
                      suggested_schemas |-> acc.suggested_schemas \cup {related}]

RECURSIVE ExpandVisits(_, _, _)
ExpandVisits(visits, present_types, acc) ==
    IF visits = <<>> THEN acc
    ELSE LET parent == Head(visits)[1]
             related == Head(visits)[2]
         IN  ExpandVisits(Tail(visits), present_types,
                IF ExpansionSkipped(related, present_types, acc.suggested_schemas)
                   THEN acc
                   ELSE [suggestions |->
                            Append(acc.suggestions,
                                   Suggestion(related, "low", "Related",
                                              "Commonly used with " \o parent)),
                         suggested_schemas |-> acc.suggested_schemas \cup {related}])

\* _expand_related_schemas: the list it returns
expand_related_schemas(present_types, suggested_schemas, seed) ==
    ExpandVisits(ExpansionVisits(SetOrder(present_types, seed), seed),
                 present_types,
                 [suggestions |-> <<>>,
                  suggested_schemas |-> suggested_schemas]).suggestions

\* _group_by_category putting a category it meets for the first time in
\* front of the categories it already holds
RECURSIVE group_by_category_newest_first(_)
group_by_category_newest_first(suggestions) ==
    IF suggestions = <<>> THEN <<>>
    ELSE LET n == Len(suggestions)
             front == group_by_category_newest_first(
                          SubSeq(suggestions, 1, n - 1))
             s == suggestions[n]
         IN  IF \E g \in 1..Len(front) : front[g][1] = s.category
                THEN [g \in 1..Len(front) |->
                        IF front[g][1] = s.category
                           THEN <<front[g][1], Append(front[g][2], s)>>
                           ELSE front[g]]
                ELSE <<<<s.category, <<s>>>>>> \o front

\* _group_by_category: the mapping as its <<category, list>> items in
\* insertion order
RECURSIVE group_by_category(_)
group_by_category(suggestions) ==
    IF suggestions = <<>> THEN <<>>
    ELSE LET n == Len(suggestions)
             front == group_by_category(SubSeq(suggestions, 1, n - 1))
             s == suggestions[n]
         IN  IF \E g \in 1..Len(front) : front[g][1] = s.category
                THEN [g \in 1..Len(front) |->
                        IF front[g][1] = s.category
                           THEN <<front[g][1], Append(front[g][2], s)>>
                           ELSE front[g]]
                ELSE Append(front, <<s.category, <<s>>>>)

generate(ents, sigs, rs, seed) ==
    LET present_types == PresentTypes(ents)
        layer1 == RuleLayer(rs, present_types, sigs,
                            [suggestions |-> <<>>, suggested_schemas |-> {}])
    IN  group_by_category(
            layer1.suggestions \o
            expand_related_schemas(present_types, layer1.suggested_schemas, seed))

(***************************************************************************)
(* Suggestion pipeline                                                     *)
(***************************************************************************)
\* The entity types the extractors hand over in the model
PageTypes ==
    {"Organization", "LocalBusiness", "Product", "FAQPage", "Question",
     "Answer"}

\* State after NORMALIZATION of analyze_html, the engine's rule file loaded
Init ==
    /\ entities \in
         {[i \in 1..Len(l) |->
              NormalizedEntity(l[i], Props(Absent, Absent, Absent, Absent),
                               "jsonld")] :
            l \in SeqsUpTo(PageTypes, MaxEntities)}
    /\ mergeIn = <<>>
    /\ scored = NotScored
    /\ lastOp = "normalize"
    /\ steps = 0
    /\ rules \in RuleLists
    /\ signals \in SignalBags
    /\ hashSeed = 1
    /\ grouped = NoGrouped
    /\ firstGrouped = NoGrouped
    /\ runs = 0
    /\ organization = NotResolved
    /\ loader = LoadedLoader
    /\ threads = NoThreads
    /\ genArgs = NoCall

\* analyze_html TYPE RESOLUTION
ResolveTypes ==
    /\ lastOp = "normalize"
    /\ entities' = ResolveAll(entities)
    /\ lastOp' = "resolve"
    /\ UNCHANGED <<scored, mergeIn, steps, rules, signals, hashSeed, grouped,
                   firstGrouped, runs, organization, loader, threads, genArgs>>

\* SUGGESTION_ENGINE.generate(entities, signals), once more in the process
\* that made the previous call
Generate ==
    /\ lastOp \in {"resolve", "generate"}
    /\ runs < MaxRuns
    /\ grouped' = generate(entities, signals, rules, hashSeed)
    /\ firstGrouped' = IF runs = 0 THEN grouped' ELSE firstGrouped
    /\ runs' = runs + 1
    /\ lastOp' = "generate"
    /\ UNCHANGED <<scored, entities, mergeIn, steps, rules, signals, hashSeed,
                   organization, loader, threads, genArgs>>

\* The serving process is started anew (string hashing is seeded again and
\* the engine is constructed again from the same rule file), and the same
\* page is analysed again.
GenerateAfterRestart ==
    /\ lastOp = "generate"
    /\ runs < MaxRuns
    /\ \E seed \in 1..NumSeeds :
          /\ hashSeed' = seed
          /\ grouped' = generate(entities, signals, rules, seed)
    /\ firstGrouped' = firstGrouped
    /\ runs' = runs + 1
    /\ lastOp' = "generate"
    /\ UNCHANGED <<scored, entities, mergeIn, steps, rules, signals,
                   organization, loader, threads, genArgs>>

Next == ResolveTypes \/ Generate \/ GenerateAfterRestart

Spec == Init /\ [][Next]_vars

\* The same pipeline on pages whose entities are declared with types from
\* the upper levels of the hierarchy or as a Product, the whole rule file
\* loaded
CoverageTypes ==
    {"Thing", "CreativeWork", "WebPage", "FAQPage", "Article", "Organization",
     "Intangible", "Place", "Product"}

InitCoverage ==
    /\ entities \in
         {[i \in 1..Len(l) |->
              NormalizedEntity(l[i], Props(Absent, Absent, Absent, Absent),
                               "jsonld")] :
            l \in SeqsUpTo(CoverageTypes, MaxEntities)}
    /\ mergeIn = <<>>
    /\ scored = NotScored
    /\ lastOp = "normalize"
    /\ steps = 0
    /\ rules = RuleFile
    /\ signals \in SignalBags
    /\ hashSeed = 1
    /\ grouped = NoGrouped
    /\ firstGrouped = NoGrouped
    /\ runs = 0
    /\ organization = NotResolved
    /\ loader = LoadedLoader
    /\ threads = NoThreads
    /\ genArgs = NoCall

SpecCoverage == InitCoverage /\ [][Next]_vars

\* The same pipeline on a page with one Product, the engine loaded with one
\* rule whose only condition is a signal.<path> key
SignalKeys ==
    { <<"signal", "ecommerce", "review_detected">>,
      <<"signal", "ecommerce", "price_detected">>,
      <<"signal", "ecommerce", "rating_detected">>,
      <<"signal", "social", "review_detected">>,
      <<"signal", "ecommerce", "review_detected", "count">>,
      <<"signal", "ecommerce", "signal", "review_detected">> }

SignalExpected == {PyScalar("True"), PyScalar("False"), PyNone}

\* Bags of the signal analyzer: a mapping of sections to mappings of flags,
\* and the empty bag analyze_html falls back to
AnalyzerBags ==
    {PyDict(<<>>)} \cup
    {PyDict([ecommerce |-> PyDict([review_detected |-> PyScalar(r),
                                   price_detected |-> PyScalar(p)])]) :
        r \in {"True", "False"}, p \in {"True", "False"}}

SignalRule(key, expected) ==
    Rule(<<Cond(key, expected)>>, "Review", "medium", "Ecommerce",
         "Reviews found on page")

InitSignal ==
    /\ entities = <<NormalizedEntity("Product",
                                     Props(Absent, Absent, Absent, Absent),
                                     "jsonld")>>
    /\ mergeIn = <<>>
    /\ scored = NotScored
    /\ lastOp = "normalize"
    /\ steps = 0
    /\ rules \in {<<SignalRule(key, expected)>> :
                     key \in SignalKeys, expected \in SignalExpected}
    /\ signals \in AnalyzerBags
    /\ hashSeed = 1
    /\ grouped = NoGrouped
    /\ firstGrouped = NoGrouped
    /\ runs = 0
    /\ organization = NotResolved
    /\ loader = LoadedLoader
    /\ threads = NoThreads
    /\ genArgs = NoCall

SpecSignal == InitSignal /\ [][Next]_vars

(***************************************************************************)
(* Analysis runs of the threadpool inside SUGGESTION_ENGINE.generate       *)
(***************************************************************************)
\* The pages of the runs: entities with their types resolved, and signals
EnginePages ==
    {[entities |-> ResolveAll(<<NormalizedEntity(
                                   type, Props(Absent, Absent, Absent, Absent),
                                   "jsonld")>>),
      signals |-> sigs] :
        type \in {"Product", "LocalBusiness"}, sigs \in SignalBags}

EngineRun(page) ==
    [pc |-> "idle", entities |-> page.entities, signals |-> page.signals,
     next |-> 0, overlapped |-> FALSE, result |-> NoGrouped]

\* present_types, suggestions and suggested_schemas are local names of
\* generate, bound anew in the frame of every invocation
NoFrame == [present_types |-> {}, suggestions |-> <<>>, suggested_schemas |-> {}]

\* one frame, that of the first invocation, used by every invocation
FrameOfEngine(t) == 1

\* the frame an invocation reads and writes: its own
Frame(t) == t

InitEngine ==
    /\ threads \in
         {[run |-> [t \in 1..NumThreads |-> EngineRun(pages[t])],
           frame |-> [t \in 1..NumThreads |-> NoFrame]] :
            pages \in [1..NumThreads -> EnginePages]}
    /\ rules = RuleFile
    /\ signals = PyDict(<<>>)
    /\ entities = <<>>
    /\ mergeIn = <<>>
    /\ scored = NotScored
    /\ lastOp = "normalize"
    /\ steps = 0
    /\ hashSeed = 1
    /\ grouped = NoGrouped
    /\ firstGrouped = NoGrouped
    /\ runs = 0
    /\ organization = NotResolved
    /\ loader = LoadedLoader
    /\ genArgs = NoCall

engineRest ==
    <<entities, mergeIn, scored, lastOp, steps, rules, signals, hashSeed,
      grouped, firstGrouped, runs, organization, loader, genArgs>>

\* Another invocation is between its first and its last statement
OthersRunning(t) ==
    \E u \in 1..NumThreads :
        u # t /\ threads.run[u].pc \in {"rules", "group"}

\* present_types = {...}; suggestions = []; suggested_schemas = set()
StartGenerate(t) ==
    /\ threads.run[t].pc = "idle"
    /\ threads' =
          [threads EXCEPT
             !.run[t].pc = "rules",
             !.run[t].next = 1,
             !.run[t].overlapped = OthersRunning(t),
             !.frame[Frame(t)] =
                 [present_types |-> PresentTypes(threads.run[t].entities),
                  suggestions |-> <<>>,
                  suggested_schemas |-> {}]]
    /\ UNCHANGED engineRest

\* one pass of `for rule in self.rules`
RuleStep(t) ==
    /\ threads.run[t].pc = "rules"
    /\ threads.run[t].next <= Len(rules)
    /\ LET f == threads.frame[Frame(t)]
           acc == RuleLayer(<<rules[threads.run[t].next]>>, f.present_types,
                            threads.run[t].signals,
                            [suggestions |-> f.suggestions,
                             suggested_schemas |-> f.suggested_schemas])
       IN  threads' =
             [threads EXCEPT
                !.run[t].next = @ + 1,
                !.run[t].overlapped = @ \/ OthersRunning(t),
                !.frame[Frame(t)].suggestions = acc.suggestions,
                !.frame[Frame(t)].suggested_schemas = acc.suggested_schemas]
    /\ UNCHANGED engineRest

\* suggestions.extend(self._expand_related_schemas(...)) after the rule loop
ExpandStep(t) ==
    /\ threads.run[t].pc = "rules"
    /\ threads.run[t].next > Len(rules)
    /\ LET f == threads.frame[Frame(t)]
       IN  threads' =
             [threads EXCEPT
                !.run[t].pc = "group",
                !.run[t].overlapped = @ \/ OthersRunning(t),
                !.frame[Frame(t)].suggestions =
                    @ \o expand_related_schemas(f.present_types,
                                                f.suggested_schemas, hashSeed)]
    /\ UNCHANGED engineRest

\* return self._group_by_category(suggestions)
GroupStep(t) ==
    /\ threads.run[t].pc = "group"
    /\ threads' =
          [threads EXCEPT
             !.run[t].pc = "done",
             !.run[t].overlapped = @ \/ OthersRunning(t),
             !.run[t].result =
                 group_by_category(threads.frame[Frame(t)].suggestions)]
    /\ UNCHANGED engineRest

NextEngine ==
    \E t \in 1..NumThreads :
        \/ StartGenerate(t)
        \/ RuleStep(t)
        \/ ExpandStep(t)
        \/ GroupStep(t)

SpecEngine == InitEngine /\ [][NextEngine]_vars

(***************************************************************************)
(* SuggestionEngine.generate called directly, with either argument given   *)
(* or None                                                                 *)
(***************************************************************************)
\* The set comprehension over `entities` is the first statement of generate:
\* iterating None raises TypeError before anything else is done
generate_raises(entities_given) == ~entities_given

InitCall ==
    /\ genArgs \in {[entities_given |-> e, signals_given |-> g, outcome |-> "none"] :
                       e \in BOOLEAN, g \in BOOLEAN}
    /\ entities \in
         {ResolveAll([i \in 1..Len(l) |->
                        NormalizedEntity(l[i],
                                         Props(Absent, Absent, Absent, Absent),
                                         "jsonld")]) :
            l \in SeqsUpTo(PageTypes, MaxEntities)}
    /\ genArgs.entities_given \/ entities = <<>>
    /\ signals \in SignalBags
    /\ genArgs.signals_given \/ signals = PyDict(<<>>)
    /\ rules \in RuleLists
    /\ mergeIn = <<>>
    /\ scored = NotScored
    /\ lastOp = "resolve"
    /\ steps = 0
    /\ hashSeed = 1
    /\ grouped = NoGrouped
    /\ firstGrouped = NoGrouped
    /\ runs = 0
    /\ organization = NotResolved
    /\ loader = LoadedLoader
    /\ threads = NoThreads

\* engine.generate(entities or None, signals or None)
CallGenerate ==
    /\ genArgs.outcome = "none"
    /\ IF generate_raises(genArgs.entities_given)
          THEN /\ genArgs' = [genArgs EXCEPT !.outcome = "TypeError"]
               /\ UNCHANGED grouped
          ELSE /\ genArgs' = [genArgs EXCEPT !.outcome = "returned"]
               /\ grouped' =
                     generate(entities,
                              IF genArgs.signals_given THEN signals ELSE PyNone,
                              rules, hashSeed)
    /\ UNCHANGED <<entities, mergeIn, scored, lastOp, steps, rules, signals,
                   hashSeed, firstGrouped, runs, organization, loader, threads>>

NextCall == CallGenerate

SpecCall == InitCall /\ [][NextCall]_vars

(***************************************************************************)
(* schemaorg_loader under the threadpool: analyze_html runs in worker      *)
(* threads (api/analyze.py run_in_threadpool), and every resolve_types     *)
(* call of a worker goes through load_schemaorg_ontology.                  *)
(*                                                                         *)
(* loader.graph    _SCHEMA_GRAPH: 0 for None, else the graph object held   *)
(* loader.objects  the graph objects built so far, each with its contents  *)
(* loader.readable whether SCHEMA_FILE can be opened and parsed            *)
(* loader.first    the object the first load call that returned gave back  *)
(*                                                                         *)
(* A worker's first load call is the one of TYPE RESOLUTION; its later     *)
(* ones are is_subclass(e.type, "Organization") of resolve_organization.   *)
(***************************************************************************)
\* The entity types of the pages the workers analyse; "Widget" is a type the
\* vocabulary does not declare
ThreadTypes == {"Thing", "Organization", "LocalBusiness", "Widget"}

Worker(type) ==
    [pc |-> "idle", type |-> type, calls |-> 0, late |-> FALSE, built |-> 0,
     held |-> 0, resolved |-> FALSE, resolved_types |-> {},
     is_organization |-> "unasked", result |-> "none"]

InitLoad ==
    /\ loader \in {[graph |-> 0, readable |-> r, objects |-> <<>>, first |-> 0] :
                      r \in BOOLEAN}
    /\ threads \in {[t \in 1..NumThreads |-> Worker(type)] : type \in ThreadTypes}
    /\ entities = <<>>
    /\ mergeIn = <<>>
    /\ scored = NotScored
    /\ lastOp = "normalize"
    /\ steps = 0
    /\ rules = <<>>
    /\ signals = [kind |-> "dict", items |-> <<>>]
    /\ hashSeed = 1
    /\ grouped = NoGrouped
    /\ firstGrouped = NoGrouped
    /\ runs = 0
    /\ organization = NotResolved
    /\ genArgs = NoCall

restOfState ==
    <<entities, mergeIn, scored, lastOp, steps, rules, signals, hashSeed,
      grouped, firstGrouped, runs, organization, genArgs>>

\* load_schemaorg_ontology is entered: `if _SCHEMA_GRAPH is None`
LoadCheck(t) ==
    /\ threads[t].pc = "idle"
    /\ threads[t].calls < MaxCalls
    /\ threads' = [threads EXCEPT
                     ![t].pc = IF loader.graph = 0 THEN "build" ELSE "return",
                     ![t].calls = @ + 1,
                     ![t].built = 0,
                     ![t].late = (loader.first # 0)]
    /\ UNCHANGED <<loader, restOfState>>

\* _build_schema_graph(): a new graph object, or the exception of open /
\* json.load, which leaves _SCHEMA_GRAPH as it was
BuildGraph(t) ==
    /\ threads[t].pc = "build"
    /\ IF loader.readable
          THEN /\ loader' = [loader EXCEPT !.objects = Append(@, SCHEMA_GRAPH)]
               /\ threads' = [threads EXCEPT ![t].pc = "assign",
                                             ![t].built = Len(loader.objects) + 1]
          ELSE /\ threads' = [threads EXCEPT ![t].pc = "raised"]
               /\ UNCHANGED loader
    /\ UNCHANGED restOfState

\* _SCHEMA_GRAPH = <the graph built>
AssignGraph(t) ==
    /\ threads[t].pc = "assign"
    /\ loader' = [loader EXCEPT !.graph = threads[t].built]
    /\ threads' = [threads EXCEPT ![t].pc = "return"]
    /\ UNCHANGED restOfState

\* return _SCHEMA_GRAPH
ReturnGraph(t) ==
    /\ threads[t].pc = "return"
    /\ threads' = [threads EXCEPT ![t].pc = "loaded", ![t].held = loader.graph]
    /\ loader' = [loader EXCEPT
                    !.first = IF @ = 0 THEN loader.graph ELSE @]
    /\ UNCHANGED restOfState

\* What analyze_html returns once the run has made its last call to the
\* loader: every failure on the way was caught, so the mapping without an
\* "error" key
ReturnedAfter(calls) == IF calls = MaxCalls THEN "normal" ELSE "none"

\* The caller goes on with the graph it was given (every graph object holds
\* what _build_schema_graph put into it): resolve_types stores the entity's
\* resolved types, is_subclass answers resolve_organization
UseGraph(t) ==
    /\ threads[t].pc = "loaded"
    /\ threads' =
          IF threads[t].calls = 1
            THEN [threads EXCEPT
                    ![t].pc = "idle",
                    ![t].resolved = TRUE,
                    ![t].resolved_types = resolve_types(threads[t].type),
                    ![t].result = ReturnedAfter(threads[t].calls)]
            ELSE [threads EXCEPT
                    ![t].pc = "idle",
                    ![t].is_organization =
                        IF is_subclass(threads[t].type, "Organization")
                           THEN "yes" ELSE "no",
                    ![t].result = ReturnedAfter(threads[t].calls)]
    /\ UNCHANGED <<loader, restOfState>>

\* The exception of the load reaches analyze_html: `except Exception` of
\* TYPE RESOLUTION stores [], that of ORGANIZATION stores {}, and the run
\* goes on to its return statement
LoadFailed(t) ==
    /\ threads[t].pc = "raised"
    /\ threads' =
          IF threads[t].calls = 1
            THEN [threads EXCEPT ![t].pc = "idle",
                                 ![t].resolved = TRUE,
                                 ![t].resolved_types = {},
                                 ![t].result = ReturnedAfter(threads[t].calls)]
            ELSE [threads EXCEPT ![t].pc = "idle",
                                 ![t].is_organization = "raised",
                                 ![t].result = ReturnedAfter(threads[t].calls)]
    /\ UNCHANGED <<loader, restOfState>>

NextLoad ==
    \E t \in 1..NumThreads :
        \/ LoadCheck(t)
        \/ BuildGraph(t)
        \/ AssignGraph(t)
        \/ ReturnGraph(t)
        \/ UseGraph(t)
        \/ LoadFailed(t)

SpecLoad == InitLoad /\ [][NextLoad]_vars

(***************************************************************************)
(* Properties of SuggestionEngine.generate (Spec)                          *)
(***************************************************************************)
\* The suggestions of a returned mapping, category after category
RECURSIVE Flatten(_)
Flatten(g) == IF g = <<>> THEN <<>> ELSE Head(g)[2] \o Flatten(Tail(g))

Emitted == Flatten(grouped)

EmittedSchemas == {Emitted[i].schema : i \in 1..Len(Emitted)}

Present == PresentTypes(entities)

\* A subclass-match as the specification words it: the candidate is the type
\* itself or one of its direct declared subclasses
StatedMatch(typeName, candidate) ==
    \/ candidate = typeName
    \/ /\ typeName \in DOMAIN SCHEMA_GRAPH
       /\ candidate \in SCHEMA_GRAPH[typeName]

\* isSatisfied as the specification words it
StatedSatisfied(schema, presentTypes) ==
    /\ schema \in DOMAIN SCHEMA_SATISFACTION_RULES
    /\ \E k \in 1..Len(SCHEMA_SATISFACTION_RULES[schema]) :
          \A member \in SCHEMA_SATISFACTION_RULES[schema][k] :
              \E t \in presentTypes : StatedMatch(t, member)

\* The related types the expansion layer visits for the present types
RelatedCandidates ==
    UNION {RELATED_SCHEMAS[RELATED_KEYS[k]] :
             k \in {j \in 1..Len(RELATED_KEYS) :
                      \E t \in Present : StatedMatch(t, RELATED_KEYS[j])}}

\* C1: every suggestion returned by generate, from the rule layer or from
\* the expansion layer, names a schema that no present type subclass-matches
\* and for which isSatisfied(schema, presentTypes) is false.
C1_NoCoveredOrSatisfiedSuggestion ==
    runs >= 1 =>
        \A i \in 1..Len(Emitted) :
            /\ ~\E t \in Present : StatedMatch(t, Emitted[i].schema)
            /\ ~is_schema_satisfied(Emitted[i].schema, Present)

\* A run that returned rule and Related suggestions while the expansion
\* visited a related type that is satisfied but not subclass-matched
C1_Witness ==
    /\ runs >= 1
    /\ \E i, j \in 1..Len(Emitted) :
          Emitted[i].category = "Related" /\ Emitted[j].category # "Related"
    /\ \E related \in RelatedCandidates :
          /\ is_schema_satisfied(related, Present)
          /\ ~\E t \in Present : StatedMatch(t, related)
          /\ related \notin EmittedSchemas

\* C2: within one generate run no schema name is emitted more than once
\* across the rule layer and the expansion layer.
C2_NoSchemaEmittedTwice ==
    runs >= 1 =>
        \A i, j \in 1..Len(Emitted) :
            i # j => Emitted[i].schema # Emitted[j].schema

\* A run in which two matching rules suggest Organization and a rule emits
\* Review, which the expansion layer then visits for Product
C2_Witness ==
    /\ runs >= 1
    /\ RuleFile[1] \in Range(rules) /\ RuleFile[2] \in Range(rules)
    /\ "Organization" \in EmittedSchemas
    /\ "Review" \in RelatedCandidates
    /\ \E i \in 1..Len(Emitted) :
          Emitted[i].schema = "Review" /\ Emitted[i].category = "Ecommerce"

\* The rule {when: {missing_schema: Organization}, suggest: Organization}
OrganizationRule == RuleFile[2]

\* C3 as stated: the rule emits no suggestion when some present type
\* subclass-matches Organization, and an Organization suggestion is emitted
\* for every other set of present types.
C3_FiresWheneverNotMatched ==
    (runs >= 1 /\ OrganizationRule \in Range(rules)) =>
        ("Organization" \in EmittedSchemas
            <=> ~\E t \in Present : StatedMatch(t, "Organization"))

\* C3 as amended: the rule emits no suggestion when some present type
\* subclass-matches Organization or when Organization is
\* satisfaction-redundant (some present type subclass-matches
\* LocalBusiness); for every other set of present types an Organization
\* suggestion is emitted, by this rule unless an earlier rule emitted it.
C3_FiresUnlessMatchedOrSatisfied ==
    (runs >= 1 /\ OrganizationRule \in Range(rules)) =>
        /\ "Organization" \in EmittedSchemas
              <=> /\ ~\E t \in Present : StatedMatch(t, "Organization")
                  /\ ~\E t \in Present : StatedMatch(t, "LocalBusiness")
        /\ RuleFile[1] \notin Range(rules) =>
              \A i \in 1..Len(Emitted) :
                  Emitted[i].schema = "Organization" =>
                      /\ Emitted[i].confidence = OrganizationRule.confidence
                      /\ Emitted[i].category = OrganizationRule.category
                      /\ Emitted[i].reason = OrganizationRule.reason

\* A run with the rule loaded where no present type subclass-matches
\* Organization, LocalBusiness is present and no Organization is suggested
C3_Witness ==
    /\ runs >= 1
    /\ OrganizationRule \in Range(rules)
    /\ Present # {}
    /\ ~\E t \in Present : StatedMatch(t, "Organization")
    /\ "LocalBusiness" \in Present
    /\ "Organization" \notin EmittedSchemas

\* C4: isSatisfied(schema, presentTypes) is true if and only if the
\* satisfaction table has an entry for schema and, for at least one of its
\* alternative sets, every member has a subclass-match among the present
\* types; FAQPage is not satisfied by {FAQPage} and is satisfied once
\* Question and Answer are both present.
C4_SatisfiedIffAnAlternativeCovered ==
    /\ \A schema \in Range(AllTypes) :
          is_schema_satisfied(schema, Present) <=> StatedSatisfied(schema, Present)
    /\ Present = {"FAQPage"} => ~is_schema_satisfied("FAQPage", Present)
    /\ {"Question", "Answer"} \subseteq Present =>
          is_schema_satisfied("FAQPage", Present)

\* A run with the FAQPage rule loaded, Question and Answer present and
\* FAQPage absent: the rule matched and FAQPage was dropped as satisfied
C4_Witness ==
    /\ runs >= 1
    /\ RuleFile[4] \in Range(rules)
    /\ Present = {"Question", "Answer"}
    /\ is_schema_satisfied("FAQPage", Present)
    /\ "FAQPage" \notin EmittedSchemas

\* C5: running generate twice on identical entities and signals produces
\* identical grouped output, whatever order the present-type set and the
\* related-type sets are iterated in.
C5_SameOutputOnEveryRun ==
    runs >= 2 => grouped = firstGrouped

(***************************************************************************)
(* Properties of merge_entities and enrich_confidence (SpecMerge)          *)
(***************************************************************************)
\* The identity key as the specification words it: the type, the lowercased
\* name or the empty string, the lowercased url or the empty string.
StatedKey(e) ==
    <<e.type,
      IF e.properties.name = Absent THEN "" ELSE Lower(e.properties.name),
      IF e.properties.url = Absent THEN "" ELSE Lower(e.properties.url)>>

\* Positions of the members of the last merge's input that share key k
StatedGroup(k) == {i \in 1..Len(mergeIn) : StatedKey(mergeIn[i]) = k}

StatedKeys == {StatedKey(mergeIn[i]) : i \in 1..Len(mergeIn)}

GroupMaxConfidence(k) ==
    CHOOSE c \in {mergeIn[i].confidence : i \in StatedGroup(k)} :
        \A i \in StatedGroup(k) : mergeIn[i].confidence <= c

GroupSources(k) == {mergeIn[i].source : i \in StatedGroup(k)}

\* The records of the merge output that carry key k
Survivors(k) == {j \in 1..Len(entities) : StatedKey(entities[j]) = k}

\* C6: merge returns at most as many records as it was given, and no two
\* returned records share the identity key (type, lowercased name or empty
\* string, lowercased url or empty string).
C6_MergeSizeAndUniqueKeys ==
    lastOp = "merge" =>
        /\ Len(entities) <= Len(mergeIn)
        /\ \A i, j \in 1..Len(entities) :
              i # j => StatedKey(entities[i]) # StatedKey(entities[j])

\* A merge that collapsed two records whose names differ only in case
C6_Witness ==
    /\ lastOp = "merge"
    /\ Len(entities) < Len(mergeIn)
    /\ \E i, j \in 1..Len(mergeIn) :
          /\ mergeIn[i].properties.name # mergeIn[j].properties.name
          /\ StatedKey(mergeIn[i]) = StatedKey(mergeIn[j])

RECURSIVE Joined(_)
Joined(ss) == IF ss = <<>> THEN <<>> ELSE Head(ss) \o Joined(Tail(ss))

\* C8: after merge the survivor's source is exactly the distinct source tags
\* of all members of its identity group, sorted and joined by commas.
C8_MergeSource ==
    lastOp = "merge" =>
        \A k \in StatedKeys : \A j \in Survivors(k) :
            \E ss \in [1..Cardinality(GroupSources(k)) -> GroupSources(k)] :
                /\ Range(ss) = GroupSources(k)
                /\ \A a, b \in 1..Len(ss) : a < b => SourceLess(ss[a], ss[b])
                /\ entities[j].source = Joined(ss)

\* A survivor whose group was attested by two sources, the later one first
\* in alphabetical order
C8_Witness ==
    /\ lastOp = "merge"
    /\ \E k \in StatedKeys : \E j \in Survivors(k) :
          /\ Cardinality(GroupSources(k)) = 2
          /\ entities[j].source = <<"jsonld", "rdfa">>
          /\ \E a, b \in StatedGroup(k) :
                a < b /\ mergeIn[a].source = <<"rdfa">>
                      /\ mergeIn[b].source = <<"jsonld">>

\* C9: a group whose members carry more than one distinct source tag is
\* boosted, and a group whose members all come from the same source keeps
\* the survivor's confidence unchanged.
C9_BoostOnlyWhenMultiSource ==
    lastOp = "merge" =>
        \A k \in StatedKeys : \A j \in Survivors(k) :
            entities[j].confidence =
                IF Cardinality(GroupSources(k)) > 1
                   THEN Min(GroupMaxConfidence(k) + 100, 1000)
                   ELSE GroupMaxConfidence(k)

\* C10: starting from confidences in [0,1], after any sequence of merge and
\* score operations every record's confidence still lies in [0,1].
C10_ConfidenceInUnitInterval ==
    \A i \in 1..Len(entities) :
        entities[i].confidence >= 0 /\ entities[i].confidence <= 1000

\* A merge whose boost had to be clamped: the group's maximum was above 0.9
C10_Witness ==
    /\ lastOp = "merge"
    /\ \E k \in StatedKeys : \E j \in Survivors(k) :
          /\ Cardinality(StatedGroup(k)) > 1
          /\ GroupMaxConfidence(k) > 900
          /\ entities[j].confidence = 1000

\* C11: neither score nor merge ever lowers a record's confidence: the
\* record that was scored has at least the confidence it had, and a record
\* that survives a merge has at least the confidence of every member of its
\* group, the survivor itself being one of them.
C11_ConfidenceNeverLowered ==
    /\ lastOp = "score" =>
          entities[scored.index].confidence >= scored.before.confidence
    /\ lastOp = "merge" =>
          \A k \in StatedKeys : \A j \in Survivors(k) : \A i \in StatedGroup(k) :
              entities[j].confidence >= mergeIn[i].confidence

\* A merge after a score whose group held two different confidences, the
\* first member the lower one, and a score of a record already at 1.0
C11_Witness ==
    \/ /\ lastOp = "merge"
       /\ \E k \in StatedKeys : \E a, b \in StatedGroup(k) :
             /\ a < b
             /\ mergeIn[a].confidence < mergeIn[b].confidence
             /\ mergeIn[b].confidence < 900
             /\ \E j \in Survivors(k) :
                   entities[j].confidence = mergeIn[b].confidence + 100
    \/ /\ lastOp = "score"
       /\ scored.before.confidence = 1000
       /\ entities[scored.index].confidence = 1000

\* The bonus of a property p as C12 words it: counted when p is present
StatedBonusIfPresent(v, bonus) == IF v # Absent THEN bonus ELSE 0

\* The bonus of a property p counted when p holds a non-empty value
StatedBonusIfNonEmpty(v, bonus) == IF v # Absent /\ v # "" THEN bonus ELSE 0

\* `after` is `before` with nothing but the confidence changed, and the new
\* confidence is min(sum, 1.0) rounded to two decimals: a multiple of 0.01
\* no further than 0.005 from the clamped sum
StatedScored(after, before, sum) ==
    LET c == IF sum > 1000 THEN 1000 ELSE sum
    IN  /\ after = [before EXCEPT !.confidence = after.confidence]
        /\ after.confidence % 10 = 0
        /\ after.confidence - c <= 5
        /\ c - after.confidence <= 5

\* C12 as stated: score sets the record's confidence in place to
\* min(c + 0.05[name] + 0.05[url] + 0.05[sameAs] + 0.03[logo]
\*       + 0.10[sourceCount > 1], 1.0) rounded to two decimals, [p] being 1
\* when property p is present, and changes nothing else.
C12_ScoreFormulaForPresentProperties ==
    lastOp = "score" =>
        LET b == scored.before
        IN  StatedScored(entities[scored.index], b,
                b.confidence
                  + StatedBonusIfPresent(b.properties.name, 50)
                  + StatedBonusIfPresent(b.properties.url, 50)
                  + StatedBonusIfPresent(b.properties.sameAs, 50)
                  + StatedBonusIfPresent(b.properties.logo, 30)
                  + (IF scored.source_count > 1 THEN 100 ELSE 0))

\* C12 amended: the same formula, [p] being 1 when property p holds a
\* non-empty value (a property present with the empty string adds nothing).
C12_ScoreFormulaForNonEmptyProperties ==
    lastOp = "score" =>
        LET b == scored.before
        IN  StatedScored(entities[scored.index], b,
                b.confidence
                  + StatedBonusIfNonEmpty(b.properties.name, 50)
                  + StatedBonusIfNonEmpty(b.properties.url, 50)
                  + StatedBonusIfNonEmpty(b.properties.sameAs, 50)
                  + StatedBonusIfNonEmpty(b.properties.logo, 30)
                  + (IF scored.source_count > 1 THEN 100 ELSE 0))

\* The 0.78 example: base 0.6, all four properties, source count 1
C12_Witness ==
    /\ lastOp = "score"
    /\ scored.source_count = 1
    /\ scored.before.confidence = 600
    /\ \A p \in {"name", "url", "sameAs", "logo"} :
          Truthy(scored.before.properties[p])
    /\ entities[scored.index].confidence = 780

\* A record whose name or url does not hold a string
StatedMalformed(e) ==
    e.properties.name = NonString \/ e.properties.url = NonString

\* C20: a single malformed record in a batch (name or url not holding the
\* expected string) does not abort merging: that record is skipped and every
\* other record of the batch still appears in the merged output.
C20_MalformedRecordSkipped ==
    (/\ lastOp \in {"merge", "merge_failed"}
     /\ Cardinality({i \in 1..Len(mergeIn) : StatedMalformed(mergeIn[i])}) = 1)
    => /\ \A j \in 1..Len(entities) : ~StatedMalformed(entities[j])
       /\ \A i \in 1..Len(mergeIn) :
             ~StatedMalformed(mergeIn[i]) =>
                 \E j \in 1..Len(entities) :
                     StatedKey(entities[j]) = StatedKey(mergeIn[i])

(***************************************************************************)
(* Properties of resolve_organization (SpecOrganization)                   *)
(***************************************************************************)
\* Positions of the records whose type satisfies isSubclass(type,
\* "Organization")
StatedCandidates ==
    {i \in 1..Len(entities) : StatedMatch(entities[i].type, "Organization")}

\* C17: resolve returns none when no record's type satisfies
\* isSubclass(type, "Organization"), the empty list included; otherwise it
\* returns the projection (type, properties, confidence, source) of a
\* candidate whose confidence is the maximum among the candidates, whatever
\* the richness scores and the page url.
C17_ResolveOrganization ==
    lastOp = "organization" =>
        IF StatedCandidates = {}
          THEN organization.returned = OrgNone
          ELSE \E i \in StatedCandidates :
                  /\ \A j \in StatedCandidates :
                        entities[j].confidence <= entities[i].confidence
                  /\ organization.returned =
                        [kind |-> "dict", type |-> entities[i].type,
                         properties |-> entities[i].properties,
                         confidence |-> entities[i].confidence,
                         source |-> entities[i].source]

\* Two candidates, the one with the better richness score the less
\* confident: the other one is returned
C17_Witness ==
    /\ lastOp = "organization"
    /\ \E i, j \in StatedCandidates :
          /\ score_org(entities[i]) > score_org(entities[j])
          /\ entities[i].confidence < entities[j].confidence
          /\ organization.returned.properties = entities[j].properties
          /\ organization.returned.confidence = entities[j].confidence

(***************************************************************************)
(* Properties of _rule_matches (Spec)                                      *)
(***************************************************************************)
\* The rule has a condition key that is neither missing_schema nor a path
\* that starts with "signal."
StatedUnknownKey(rule) ==
    \E k \in 1..Len(rule.when) :
        /\ rule.when[k].key # <<"missing_schema">>
        /\ ~(Len(rule.when[k].key) >= 2 /\ rule.when[k].key[1] = "signal")

\* The suggestion the rule layer emits for a rule
StatedRuleSuggestion(rule, e) ==
    /\ e.schema = rule.suggest
    /\ e.reason = (IF rule.reason = Absent THEN "" ELSE rule.reason)
    /\ e.category = (IF rule.category = Absent THEN "General" ELSE rule.category)

\* C18: a rule whose `when` holds any condition key other than
\* missing_schema or a signal.-prefixed path never produces a rule-layer
\* suggestion, whatever the present types, the signals and its other
\* conditions.
C18_UnknownKeyNeverFires ==
    lastOp = "generate" =>
        \A k \in 1..Len(rules) :
            StatedUnknownKey(rules[k]) =>
                \A i \in 1..Len(Emitted) :
                    ~StatedRuleSuggestion(rules[k], Emitted[i])

\* A rule with an unknown key whose other condition holds and whose
\* suggestion nothing else would have dropped: it is not in the output
C18_Witness ==
    /\ lastOp = "generate"
    /\ \E k \in 1..Len(rules) :
          /\ StatedUnknownKey(rules[k])
          /\ rules[k].when[1].key = <<"missing_schema">>
          /\ ~\E t \in Present : StatedMatch(t, rules[k].when[1].expected.val)
          /\ ~\E t \in Present : StatedMatch(t, rules[k].suggest)
          /\ ~StatedSatisfied(rules[k].suggest, Present)
          /\ Present # {}
          /\ rules[k].suggest \notin EmittedSchemas

(***************************************************************************)
(* Properties of the loader and the type resolver (SpecLoad)               *)
(***************************************************************************)
\* Every type name of the model, the undeclared one included
StatedTypeNames == Range(AllTypes) \cup ThreadTypes

\* The direct subclasses the graph declares for a type
StatedChildren(t) ==
    IF t \in DOMAIN SCHEMA_GRAPH THEN SCHEMA_GRAPH[t] ELSE {}

\* The types in S and everything below them, through any number of levels
RECURSIVE StatedBelow(_)
StatedBelow(S) ==
    LET next == S \cup UNION {StatedChildren(t) : t \in S}
    IN  IF next = S THEN S ELSE StatedBelow(next)

\* The types the graph declares a type to be a direct subclass of
StatedParents(t) == {p \in DOMAIN SCHEMA_GRAPH : t \in SCHEMA_GRAPH[p]}

\* The types in S and everything above them, through any number of levels
RECURSIVE StatedAbove(_)
StatedAbove(S) ==
    LET next == S \cup UNION {StatedParents(t) : t \in S}
    IN  IF next = S THEN S ELSE StatedAbove(next)

\* C13: for every type name t, known to the graph or not, resolveTypes(t)
\* contains t and isSubclass(t, t) is true, and every record that has passed
\* through the type-resolution step has a non-empty resolved_types that
\* contains its own type.
C13_ResolvedTypesHoldOwnType ==
    /\ \A t \in StatedTypeNames : t \in resolve_types(t) /\ is_subclass(t, t)
    /\ \A w \in 1..NumThreads :
          threads[w].resolved =>
              /\ threads[w].resolved_types # {}
              /\ threads[w].type \in threads[w].resolved_types

\* C14: isSubclass(typeName, candidate) is true exactly when the candidate
\* is typeName or a direct declared subclass of typeName; it is false for a
\* candidate reachable only through two or more levels and for a candidate
\* that is only an ancestor of typeName.  Read off the resolved types a
\* worker stored (the candidates isSubclass(typeName, .) is true for) and
\* the answer it got for "Organization".
C14_OneHopSubclass ==
    \A w \in 1..NumThreads :
        LET typeName == threads[w].type
            matched(c) == c \in threads[w].resolved_types
        IN  /\ (threads[w].resolved /\ threads[w].resolved_types # {}) =>
                  /\ threads[w].resolved_types =
                        {typeName} \cup StatedChildren(typeName)
                  /\ \A c \in StatedBelow({typeName}) :
                        (c # typeName /\ c \notin StatedChildren(typeName))
                            => ~matched(c)
                  /\ \A c \in StatedAbove({typeName}) :
                        (c # typeName /\ c \notin StatedChildren(typeName))
                            => ~matched(c)
            /\ threads[w].is_organization \in {"yes", "no"} =>
                  (threads[w].is_organization = "yes" <=>
                     ("Organization" = typeName
                        \/ "Organization" \in StatedChildren(typeName)))

\* A worker whose entity is a Thing: Organization, one level below, is
\* matched, LocalBusiness, two levels below, is not
C14_Witness ==
    \E w \in 1..NumThreads :
        /\ threads[w].type = "Thing"
        /\ threads[w].resolved
        /\ "Organization" \in threads[w].resolved_types
        /\ "LocalBusiness" \in StatedBelow({"Thing"})
        /\ "LocalBusiness" \notin threads[w].resolved_types
        /\ threads[w].is_organization = "yes"

\* C15: when two or more threads make the first call to load concurrently
\* the graph is built exactly once: no two callers both run the builder,
\* and no two callers end up holding different graph objects.
C15_GraphBuiltOnce ==
    /\ Len(loader.objects) <= 1
    /\ \A v, w \in 1..NumThreads :
          (threads[v].held # 0 /\ threads[w].held # 0) =>
              threads[v].held = threads[w].held

\* C16: after the first successful load every later load call returns the
\* same cached graph without building it again, and no operation ever
\* changes the contents of a graph.
C16_CachedGraphUnchanged ==
    /\ \A w \in 1..NumThreads :
          (threads[w].late /\ threads[w].pc \in {"loaded", "idle"}) =>
              /\ threads[w].held = loader.first
              /\ threads[w].built = 0
    /\ \A g \in 1..Len(loader.objects) : loader.objects[g] = SCHEMA_GRAPH

(***************************************************************************)
(* Properties of a direct generate call (SpecCall)                         *)
(***************************************************************************)
\* C19: generate never raises for malformed input: for absent (null) or
\* empty entities and for absent or empty signals it returns an empty or
\* partial suggestion mapping instead of an error.
C19_GenerateNeverRaises ==
    (/\ genArgs.outcome # "none"
     /\ \/ ~genArgs.entities_given \/ entities = <<>>
        \/ ~genArgs.signals_given \/ signals = PyDict(<<>>))
    => genArgs.outcome = "returned"

(***************************************************************************)
(* Further properties of merge_entities (SpecMerge)                        *)
(***************************************************************************)
\* The first position of group k that holds the group's maximum confidence
\* Member i of the last merge's input has the maximum confidence of its
\* identity group and no earlier member of the group has it
StatedFirstBest(key, i) ==
    \A h \in 1..Len(mergeIn) :
        key[h] = key[i] =>
            /\ mergeIn[h].confidence <= mergeIn[i].confidence
            /\ h < i => mergeIn[h].confidence < mergeIn[i].confidence

\* C23: within each identity group merge keeps the member with the maximum
\* confidence, and when several members tie for the maximum it keeps the one
\* that appears first in the input list.
C23_FirstOfMaximalConfidenceKept ==
    lastOp = "merge" =>
        LET key == [i \in 1..Len(mergeIn) |-> StatedKey(mergeIn[i])]
        IN  /\ \A i \in 1..Len(mergeIn) :
                  \E j \in 1..Len(entities) : StatedKey(entities[j]) = key[i]
            /\ \A j \in 1..Len(entities) :
                  \E i \in 1..Len(mergeIn) :
                      /\ key[i] = StatedKey(entities[j])
                      /\ StatedFirstBest(key, i)
                      /\ entities[j].type = mergeIn[i].type
                      /\ entities[j].properties = mergeIn[i].properties
                      /\ entities[j].resolved_types = mergeIn[i].resolved_types

\* Two members of one group tie for the maximum and differ in their
\* properties: the survivor has the properties of the earlier one
C23_Witness ==
    /\ lastOp = "merge"
    /\ \E k \in StatedKeys : \E a, b \in StatedGroup(k) :
          /\ a < b
          /\ mergeIn[a].confidence = GroupMaxConfidence(k)
          /\ mergeIn[b].confidence = GroupMaxConfidence(k)
          /\ mergeIn[a].properties # mergeIn[b].properties
          /\ \E j \in Survivors(k) :
                entities[j].properties = mergeIn[a].properties

\* C30: merge is idempotent on its own output: a merge applied to the list
\* the previous merge returned gives the same records in the same order,
\* with the same confidence and the same source.
C30_MergeIdempotent ==
    [][(lastOp = "merge" /\ lastOp' \in {"merge", "merge_failed"})
          => (lastOp' = "merge" /\ entities' = entities)]_vars

\* A second merge in a row whose input held a record that the first merge
\* had made out of two members (two source tags, boosted confidence)
C30_Witness ==
    /\ lastOp = "merge"
    /\ steps = 2
    /\ mergeIn = entities
    /\ \E j \in 1..Len(mergeIn) :
          /\ Len(mergeIn[j].source) = 2
          /\ mergeIn[j].confidence = 1000


(***************************************************************************)
(* Further properties of generate (Spec)                                   *)
(***************************************************************************)
\* The rule {when: {signal.ecommerce.review_detected: true}, suggest: Review}
ReviewRule == RuleFile[3]

\* C24: generate never returns a Review suggestion, from the rule layer or
\* from the expansion layer, unless some present type subclass-matches
\* Product.
C24_ReviewOnlyWithProduct ==
    (runs >= 1 /\ "Review" \in EmittedSchemas) =>
        \E t \in Present : StatedMatch(t, "Product")

\* A run in which the Review rule is loaded and matches on the signals, no
\* present type subclass-matches Product, and no Review is returned
C24_Witness ==
    /\ runs >= 1
    /\ ReviewRule \in Range(rules)
    /\ rule_matches(ReviewRule, Present, signals)
    /\ Present # {}
    /\ ~\E t \in Present : StatedMatch(t, "Product")
    /\ "Review" \notin EmittedSchemas

\* The positions of the loaded rules that suggest schema and whose
\* conditions hold on this page
MatchingRules(schema) ==
    {k \in 1..Len(rules) :
        /\ rules[k].suggest = schema
        /\ rule_matches(rules[k], Present, signals)}

\* A matched rule suggesting schema is dropped whatever was suggested before
StatedDropped(schema) ==
    \/ \E t \in Present : StatedMatch(t, schema)
    \/ StatedSatisfied(schema, Present)
    \/ schema = "Review" /\ ~\E t \in Present : StatedMatch(t, "Product")

EarliestMatching(schema) ==
    LET matching == MatchingRules(schema)
    IN  CHOOSE k \in matching : \A h \in matching : k <= h

\* C29: the rule layer takes precedence: when several rules suggest the same
\* schema, the one suggestion returned for it carries the confidence,
\* category and reason of the earliest rule in declaration order that
\* matches and is not dropped (with the defaults medium, General and the
\* empty reason for keys the rule leaves out), and a low-confidence Related
\* suggestion of the expansion layer is returned only for a schema that no
\* rule emitted in this run.
C29_RuleLayerPrecedence ==
    runs >= 1 =>
        \A s \in Range(Emitted) :
            IF MatchingRules(s.schema) # {} /\ ~StatedDropped(s.schema)
               THEN LET rule == rules[EarliestMatching(s.schema)]
                    IN  /\ s.confidence = Default(rule.confidence, "medium")
                        /\ s.category = Default(rule.category, "General")
                        /\ s.reason = Default(rule.reason, "")
               ELSE /\ s.confidence = "low"
                    /\ s.category = "Related"

\* A run in which two loaded rules that both match suggest Organization,
\* the suggestion returned carries the fields of the first of them, and the
\* expansion visits Review for Product after the Review rule emitted it
C29_Witness ==
    /\ runs >= 1
    /\ Cardinality(MatchingRules("Organization")) = 2
    /\ \E i \in 1..Len(Emitted) :
          /\ Emitted[i].schema = "Organization"
          /\ Emitted[i].category = RuleFile[1].category
    /\ "Review" \in RelatedCandidates
    /\ MatchingRules("Review") # {}
    /\ \E i \in 1..Len(Emitted) :
          Emitted[i].schema = "Review" /\ Emitted[i].category # "Related"

\* A suggestion without the RELATED_SCHEMAS key named in its reason
WithoutReason(s) ==
    [schema |-> s.schema, confidence |-> s.confidence,
     category |-> s.category, schema_url |-> s.schema_url]

\* The reasons the expansion can give for a related schema
RelatedReasons(related) ==
    {"Commonly used with " \o RELATED_KEYS[k] :
        k \in {j \in 1..Len(RELATED_KEYS) :
                 related \in RELATED_SCHEMAS[RELATED_KEYS[j]]}}

\* C28: for fixed entities, signals and rules, the set of schema names
\* emitted by generate and every rule-layer suggestion are the same under
\* every iteration order of the present-type set and of the related-type
\* sets; only the order of the Related suggestions and the triggering key
\* named in their reason can differ between iteration orders.
C28_SameUpToRelatedOrderAndReason ==
    runs >= 2 =>
        /\ {s.schema : s \in Range(Flatten(grouped))}
              = {s.schema : s \in Range(Flatten(firstGrouped))}
        /\ Len(grouped) = Len(firstGrouped)
        /\ \A g \in 1..Len(grouped) :
              /\ grouped[g][1] = firstGrouped[g][1]
              /\ grouped[g][1] # "Related" =>
                    grouped[g][2] = firstGrouped[g][2]
              /\ grouped[g][1] = "Related" =>
                    /\ Len(grouped[g][2]) = Len(firstGrouped[g][2])
                    /\ {WithoutReason(s) : s \in Range(grouped[g][2])}
                          = {WithoutReason(s) : s \in Range(firstGrouped[g][2])}
                    /\ \A s \in Range(grouped[g][2]) :
                          s.reason \in RelatedReasons(s.schema)

\* Two runs on one page under different iteration orders whose mappings
\* differ, both holding rule-layer and Related suggestions
C28_Witness ==
    /\ runs >= 2
    /\ grouped # firstGrouped
    /\ Len(grouped) >= 2
    /\ grouped[Len(grouped)][1] = "Related"
    /\ Len(grouped[Len(grouped)][2]) >= 2

(***************************************************************************)
(* Coverage of a schema by an entity, grouping (SpecCoverage)              *)
(***************************************************************************)
\* The type itself, its direct declared subclasses and their direct declared
\* subclasses
StatedWithinTwoLevels(typeName) ==
    {typeName} \cup StatedChildren(typeName)
        \cup UNION {StatedChildren(c) : c \in StatedChildren(typeName)}

\* The rule {suggest: FAQPage}, without conditions
FAQPageRule == RuleFile[4]

\* C27: in the analysis pipeline, where each entity's resolved_types is its
\* declared type T plus T's direct declared subclasses, generate treats a
\* schema X as already covered by that entity exactly when X equals T, X is
\* a direct declared subclass of T, or X is a direct declared subclass of a
\* direct declared subclass of T; coverage never reaches three declared
\* levels below T and never reaches an ancestor of T. Seen from outside: the
\* unconditional FAQPage rule is dropped as covered exactly on pages holding
\* an entity with FAQPage within two levels below its type.
C27_CoverageWithinTwoLevels ==
    runs >= 1 =>
        /\ \A i \in 1..Len(entities) :
              LET typeName == entities[i].type
                  covered(schema) == Covered(schema, entities[i].resolved_types)
              IN  /\ entities[i].resolved_types =
                        {typeName} \cup StatedChildren(typeName)
                  /\ \A schema \in Range(AllTypes) :
                        covered(schema)
                           <=> schema \in StatedWithinTwoLevels(typeName)
                  /\ \A schema \in StatedBelow({typeName})
                                    \ StatedWithinTwoLevels(typeName) :
                        ~covered(schema)
                  /\ \A schema \in StatedAbove({typeName}) \ {typeName} :
                        ~covered(schema)
        /\ ~StatedSatisfied("FAQPage", Present) =>
              ("FAQPage" \in EmittedSchemas
                  <=> ~\E i \in 1..Len(entities) :
                         "FAQPage" \in StatedWithinTwoLevels(entities[i].type))

\* A page whose only entity is a Thing: LocalBusiness, two declared levels
\* below and not among the resolved types, is covered, and FAQPage, three
\* levels below, is not and is suggested
C27_Witness ==
    /\ runs >= 1
    /\ Len(entities) = 1
    /\ entities[1].type = "Thing"
    /\ "LocalBusiness" \notin Present
    /\ Covered("LocalBusiness", Present)
    /\ "FAQPage" \in StatedBelow({"Thing"})
    /\ ~Covered("FAQPage", Present)
    /\ "FAQPage" \in EmittedSchemas

\* The suggestion list of the last run before it is grouped: the rule
\* layer's suggestions followed by the expansion's
RuleSuggestions ==
    RuleLayer(rules, Present, signals,
              [suggestions |-> <<>>, suggested_schemas |-> {}])

SuggestionList ==
    RuleSuggestions.suggestions \o
        expand_related_schemas(Present, RuleSuggestions.suggested_schemas,
                               hashSeed)

FirstAppearance(list, category) ==
    CHOOSE i \in 1..Len(list) :
        /\ list[i].category = category
        /\ \A h \in 1..(i - 1) : list[h].category # category

\* C26: the mapping returned by generate lists the categories in the order
\* of their first appearance in the suggestion list (the rule layer's
\* suggestions in rule declaration order, followed by the expansion's), and
\* every emitted suggestion appears exactly once, under the key equal to its
\* own category, in its original relative order.
C26_GroupedByFirstAppearance ==
    runs >= 1 =>
        LET layer1 == RuleSuggestions.suggestions
            list == SuggestionList
            position == [i \in 1..Len(layer1) |->
                            EarliestMatching(layer1[i].schema)]
        IN  /\ \A i, j \in 1..Len(layer1) :
                  i < j => position[i] < position[j]
            /\ {grouped[g][1] : g \in 1..Len(grouped)}
                  = {list[i].category : i \in 1..Len(list)}
            /\ \A g, h \in 1..Len(grouped) :
                  g < h => FirstAppearance(list, grouped[g][1])
                              < FirstAppearance(list, grouped[h][1])
            /\ \A g \in 1..Len(grouped) :
                  grouped[g][2] =
                      SelectSeq(list, LAMBDA s : s.category = grouped[g][1])

\* A run whose suggestion list holds a General, then an Ecommerce, then a
\* General suggestion of the rule layer
C26_Witness ==
    /\ runs >= 1
    /\ Len(grouped) >= 2
    /\ \E i, j, k \in 1..Len(RuleSuggestions.suggestions) :
          /\ i < j /\ j < k
          /\ SuggestionList[i].category = SuggestionList[k].category
          /\ SuggestionList[j].category # SuggestionList[i].category
    /\ Len(grouped[1][2]) >= 2

(***************************************************************************)
(* signal.<path> conditions (SpecSignal)                                   *)
(***************************************************************************)
\* The value found by walking a dotted path through the nested mappings of
\* a bag: null when a step is missing or reaches a non-mapping
RECURSIVE StatedLookup(_, _)
StatedLookup(value, path) ==
    IF path = <<>> THEN value
    ELSE IF value.kind # "dict" THEN PyNone
    ELSE IF Head(path) \notin DOMAIN value.items THEN PyNone
    ELSE StatedLookup(value.items[Head(path)], Tail(path))

\* The one condition of the loaded rule
SignalCondition == rules[1].when[1]

\* The rule layer emitted the loaded rule's suggestion
SignalRuleEmitted ==
    \E i \in 1..Len(Emitted) :
        Emitted[i].schema = rules[1].suggest /\ Emitted[i].category # "Related"

\* C25: a signal.<path> condition passes only when the value found by
\* walking the dotted path <path> through the nested mappings of the signals
\* bag equals the expected value; when a step of the path is missing or
\* reaches a non-mapping the looked-up value is null, so the condition fails
\* for every expected value other than null (including expected false).
C25_SignalConditionByDottedPath ==
    runs >= 1 =>
        LET path == Tail(SignalCondition.key)
            found == StatedLookup(signals, path)
        IN  /\ SignalRuleEmitted => PyEq(found, SignalCondition.expected)
            /\ (found = PyNone /\ SignalCondition.expected # PyNone)
                  => ~SignalRuleEmitted

(***************************************************************************)
(* Failure of the ontology load (SpecLoad)                                 *)
(***************************************************************************)
\* C21: when the ontology source is unreadable or malformed, no partial
\* graph is cached and the failure is surfaced by the analysis run:
\* analyze_html does not complete in a degraded mode that returns a normal
\* result (entities and suggestions) computed without the ontology.
C21_LoadFailureSurfaced ==
    ~loader.readable =>
        /\ loader.graph = 0
        /\ loader.objects = <<>>
        /\ \A t \in 1..NumThreads : threads[t].result # "normal"

(***************************************************************************)
(* Concurrent runs of generate (SpecEngine)                                *)
(***************************************************************************)
\* C22: two analysis runs that execute generate concurrently on the shared
\* engine do not share per-run state: under every interleaving each run's
\* result equals the result of running it alone, and the shared rule list,
\* satisfaction table and relatedness table are unchanged afterwards (the
\* two tables are class attributes no statement assigns to or mutates).
C22_RunsDoNotInterfere ==
    /\ rules = RuleFile
    /\ \A t \in 1..NumThreads :
          threads.run[t].pc = "done" =>
              threads.run[t].result =
                  generate(threads.run[t].entities, threads.run[t].signals,
                           RuleFile, hashSeed)

\* Two runs on different pages, each of which took steps while the other
\* was inside generate, finished with different non-empty results
C22_Witness ==
    \E t, u \in 1..NumThreads :
        /\ t # u
        /\ threads.run[t].pc = "done" /\ threads.run[u].pc = "done"
        /\ threads.run[t].overlapped /\ threads.run[u].overlapped
        /\ threads.run[t].entities # threads.run[u].entities
        /\ threads.run[t].result # <<>> /\ threads.run[u].result # <<>>
        /\ threads.run[t].result # threads.run[u].result

====
